---- MODULE Spec2Model ----
(***************************************************************************)
(* A model of the Money / Currency value objects of                        *)
(* polyteknikkojenorkesteri/money (src/src/money.ts, src/src/currency.ts). *)
(*                                                                         *)
(* A Decimal is modelled as an integer number of ticks, one tick being     *)
(* 10^-Prec.  A JavaScript object used as a map (the ratio map, the result *)
(* map) is modelled as the sequence of its entries in Object.keys order.   *)
(* The module-level cache `currencies` is a function from cache keys to    *)
(* Currency records.  Currency codes are ISO 4217 style codes (letters     *)
(* only), so a bare code, JSON.stringify of a code and JSON.stringify of a *)
(* definition are three distinct shapes of cache key.                      *)
(***************************************************************************)
EXTENDS Integers, Sequences, FiniteSets, TLC

VARIABLES currencies, money, ratios, last

vars == <<currencies, money, ratios, last>>

(***************************************************************************)
(* Bounds of the model.                                                    *)
(***************************************************************************)
\* number of fractional decimal digits a modelled Decimal carries
Prec == 4
\* largest amount, in minor units, a caller constructs a Money with
MaxAmount == 2
\* largest number of keys in the caller's ratio map
MaxKeys == 4
\* largest ratio a caller puts in the ratio map
MaxRatio == 2

(***************************************************************************)
(* Arithmetic helpers.                                                     *)
(***************************************************************************)
RECURSIVE Pow10(_)
Pow10(n) == IF n <= 0 THEN 1 ELSE 10 * Pow10(n - 1)

Abs(x) == IF x < 0 THEN -x ELSE x

\* floor of the rational num/den, den # 0 of either sign
FloorDiv(num, den) == IF den > 0 THEN num \div den ELSE (-num) \div (-den)

\* Math.floor(num/den)
MathFloor(num, den) == FloorDiv(num, den)

\* Math.round(num/den): the nearest integer, a half going towards +Infinity
MathRound(num, den) == FloorDiv(2 * num + den, 2 * den)

(***************************************************************************)
(* Currency (src/src/currency.ts).                                         *)
(***************************************************************************)
\* new Currency({code, exponent})
Currency(code, exponent) == [code |-> code, exponent |-> exponent]

\* A value handed to Currency.valueOf / Currency.equals: a code string, a
\* plain {code, exponent} definition, a Currency instance, or undefined.
StringValue(code) == [type |-> "string", code |-> code, exponent |-> 0]
DefinitionValue(code, exponent) == [type |-> "object", code |-> code, exponent |-> exponent]
InstanceValue(cur) == [type |-> "currency", code |-> cur.code, exponent |-> cur.exponent]
UndefinedValue == [type |-> "undefined", code |-> "", exponent |-> 0]

\* the keys of the cache: the bare code, or JSON.stringify of the value
BareKey(code) == [shape |-> "bare", code |-> code, exponent |-> 0]
JsonStringKey(code) == [shape |-> "string", code |-> code, exponent |-> 0]
JsonObjectKey(code, exponent) == [shape |-> "object", code |-> code, exponent |-> exponent]

\* the cache after the module is loaded: EUR, USD, FIM, DKK and JPY
PredefinedCurrencies ==
    [k \in {BareKey(c) : c \in {"EUR", "USD", "FIM", "DKK", "JPY"}} |->
        IF k.code = "JPY" THEN Currency("JPY", 0) ELSE Currency(k.code, 2)]

\* isRecord(value) of ./util: the value is an object, a plain definition
\* or a Currency instance
IsRecord(value) == value.type \in {"object", "currency"}

\* equals comparing the codes only
CurrencyEqualsByCode(cur, another) ==
    IF another.type = "undefined" THEN FALSE
    ELSE cur.code = another.code

\* Currency.equals(another)
CurrencyEquals(cur, another) ==
    IF another.type = "undefined" THEN FALSE
    ELSE IF another.type = "string" THEN cur.code = another.code
    ELSE IF IsRecord(another)
         THEN cur.code = another.code /\ cur.exponent = another.exponent
         ELSE FALSE

\* Currency.toJSON(), read against the cache: TRUE when it gives the bare code
ToJSONIsCode(cache, cur) ==
    /\ BareKey(cur.code) \in DOMAIN cache
    /\ CurrencyEquals(cache[BareKey(cur.code)], InstanceValue(cur))

\* toJSON giving the bare code for every currency
CurrencyToJSONAsCode(cache, cur) == StringValue(cur.code)

\* Currency.toJSON() as a value: the code string or the definition
CurrencyToJSON(cache, cur) ==
    IF ToJSONIsCode(cache, cur) THEN StringValue(cur.code)
    ELSE DefinitionValue(cur.code, cur.exponent)

\* a key that leaves the exponent out
JsonKeyOfCode(cache, value) == JsonObjectKey(value.code, 0)

\* JSON.stringify(value) of a value that is not a string: a Currency
\* instance is serialized through its toJSON, a plain definition as written
JsonKey(cache, value) ==
    IF value.type = "currency" /\ ToJSONIsCode(cache, value)
    THEN JsonStringKey(value.code)
    ELSE JsonObjectKey(value.code, value.exponent)

\* valueOf caching every value under its bare code
CurrencyValueOfByCode(cache, value) ==
    IF value.type = "undefined"
    THEN [error |-> "InvalidCurrencyError", currency |-> Currency("", 0), cache |-> cache]
    ELSE LET key == BareKey(value.code)
             made == IF value.type = "string" THEN Currency(value.code, 2)
                     ELSE Currency(value.code, value.exponent)
             cache2 == IF key \in DOMAIN cache THEN cache ELSE cache @@ (key :> made)
         IN [error |-> "", currency |-> cache2[key], cache |-> cache2]

\* Currency.valueOf(value): the error thrown ("" when none), the Currency
\* returned and the cache afterwards
CurrencyValueOf(cache, value) ==
    IF value.type = "undefined"
    THEN [error |-> "InvalidCurrencyError", currency |-> Currency("", 0), cache |-> cache]
    ELSE LET key == IF value.type = "string" THEN BareKey(value.code)
                    ELSE JsonKey(cache, value)
             made == IF value.type = "string" THEN Currency(value.code, 2)
                     ELSE Currency(value.code, value.exponent)
             cache2 == IF key \in DOMAIN cache THEN cache ELSE cache @@ (key :> made)
         IN [error |-> "", currency |-> cache2[key], cache |-> cache2]

(***************************************************************************)
(* Decimal (decimal.js), as far as money.ts uses it.                       *)
(***************************************************************************)
\* Decimal.toDecimalPlaces(dp) under decimal.js' default rounding mode
\* ROUND_HALF_UP: to the nearest multiple of 10^-dp, a half away from zero
ToDecimalPlaces(ticks, dp) ==
    IF dp >= Prec THEN ticks
    ELSE LET step == Pow10(Prec - dp)
             q == (2 * Abs(ticks) + step) \div (2 * step)
         IN IF ticks < 0 THEN -(q * step) ELSE q * step

\* new Decimal(value / multiplier) for the number value and multiplier = 10^e
\* (exact as long as e <= Prec)
NumberQuotient(value, multiplier) == (value * Pow10(Prec)) \div multiplier

\* the amount in minor units without its sign
AmountAsIntUnsigned(m) == (Abs(m.amount) * Pow10(m.currency.exponent)) \div Pow10(Prec)

\* this.amount.mul(multiplier).toNumber()
AmountAsInt(m) == (m.amount * Pow10(m.currency.exponent)) \div Pow10(Prec)

(***************************************************************************)
(* Money (src/src/money.ts).                                               *)
(***************************************************************************)
\* a MoneyValue {amount, currency}: amount a number or Decimal (NaN included),
\* currency a value as Currency.valueOf takes it
MoneyValue(amount, nan, currency) == [amount |-> amount, nan |-> nan, currency |-> currency]

NoMoney == [amount |-> 0, nan |-> FALSE, currency |-> Currency("", 0)]

\* !value.currency
Falsy(value) == value.type = "undefined" \/ (value.type = "string" /\ value.code = "")

\* the constructor without its test of value.currency
MoneyConstructorUnchecked(cache, value) ==
    LET cv == CurrencyValueOf(cache, value.currency)
    IN [error |-> cv.error,
        money |-> [amount |-> IF value.nan THEN 0
                              ELSE ToDecimalPlaces(value.amount, cv.currency.exponent),
                   nan |-> value.nan,
                   currency |-> cv.currency],
        cache |-> cv.cache]

\* new Money(value): the error thrown ("" when none), the Money and the cache
MoneyConstructor(cache, value) ==
    IF Falsy(value.currency)
    THEN [error |-> "CurrencyError", money |-> NoMoney, cache |-> cache]
    ELSE LET cv == CurrencyValueOf(cache, value.currency)
         IN [error |-> cv.error,
             money |-> [amount |-> IF value.nan THEN 0
                                   ELSE ToDecimalPlaces(value.amount, cv.currency.exponent),
                        nan |-> value.nan,
                        currency |-> cv.currency],
             cache |-> cv.cache]

\* Money.valueOf(value) of a value that is not a Money instance
MoneyValueOf(cache, value) == MoneyConstructor(cache, value)

\* isZero() mistaken for "not positive"
IsZeroOrNegative(m) == ~m.nan /\ m.amount <= 0

\* isZero() with its test inverted
IsZeroInverted(m) == ~m.nan /\ m.amount # 0

\* Money.isZero()
IsZero(m) == ~m.nan /\ m.amount = 0

\* withAmount handing on the currency's code (toString) in place of the Currency
WithAmountByCode(cache, m, value, nan, multiplier) ==
    MoneyValueOf(cache, MoneyValue(NumberQuotient(value, multiplier), nan,
                                   StringValue(m.currency.code)))

\* Money.withAmount(amount), the amount being the number value / multiplier
WithAmount(cache, m, value, nan, multiplier) ==
    MoneyValueOf(cache, MoneyValue(NumberQuotient(value, multiplier), nan,
                                   InstanceValue(m.currency)))

(***************************************************************************)
(* Money.allocate(ratios).  A ratio map is the sequence of its entries     *)
(* [key, ratio] in Object.keys order; `results` and `remainders` keep that *)
(* order, their keys being inserted in it.                                 *)
(***************************************************************************)
RECURSIVE SumFrom(_, _)
SumFrom(rs, i) == IF i > Len(rs) THEN 0 ELSE rs[i].ratio + SumFrom(rs, i + 1)

\* the reduce counting the ratios in place of summing them
SumOfRatiosCounted(rs) == Len(rs)

\* Object.values(ratios).reduce((acc, ratio) => acc + ratio, 0)
SumOfRatios(rs) == SumFrom(rs, 1)

\* results[key] = Math.floor(result), result = amountAsInt * ratio / sumOfRatios
ShareFloor(amountAsInt, ratio, sumOfRatios) == MathFloor(amountAsInt * ratio, sumOfRatios)

\* the rounding signal taken with Math.floor in place of Math.round
ShareRoundingFloored(amountAsInt, ratio, sumOfRatios) ==
    MathFloor(amountAsInt * ratio, sumOfRatios) - ShareFloor(amountAsInt, ratio, sumOfRatios)

\* remainders[key] = Math.round(result) - results[key]
ShareRounding(amountAsInt, ratio, sumOfRatios) ==
    MathRound(amountAsInt * ratio, sumOfRatios) - ShareFloor(amountAsInt, ratio, sumOfRatios)

\* `results` after the loop over Object.entries(ratios)
FloorResults(amountAsInt, rs, sumOfRatios) ==
    [i \in 1..Len(rs) |->
        [key |-> rs[i].key,
         value |-> ShareFloor(amountAsInt, rs[i].ratio, sumOfRatios),
         nan |-> FALSE]]

\* `remainders` after the loop over Object.entries(ratios)
Remainders(amountAsInt, rs, sumOfRatios) ==
    [i \in 1..Len(rs) |-> ShareRounding(amountAsInt, rs[i].ratio, sumOfRatios)]

RECURSIVE ValueSumFrom(_, _)
ValueSumFrom(results, i) ==
    IF i > Len(results) THEN 0 ELSE results[i].value + ValueSumFrom(results, i + 1)

\* `remainder` after the loop: amountAsInt less every results[key]
RemainderAfterFloors(amountAsInt, results) == amountAsInt - ValueSumFrom(results, 1)

\* the first remainder pass from key number i on: a key whose share rounds
\* up takes one unit while units are left
RECURSIVE FirstPassFrom(_, _, _, _)
FirstPassFrom(results, remainders, remainder, i) ==
    IF i > Len(results) THEN [results |-> results, remainder |-> remainder]
    ELSE IF remainders[i] > 0 /\ remainder > 0
         THEN FirstPassFrom([results EXCEPT ![i].value = @ + 1], remainders,
                            remainder - 1, i + 1)
         ELSE FirstPassFrom(results, remainders, remainder, i + 1)

\* the first pass without `remainder--`
RECURSIVE FirstPassKeepingFrom(_, _, _, _)
FirstPassKeepingFrom(results, remainders, remainder, i) ==
    IF i > Len(results) THEN [results |-> results, remainder |-> remainder]
    ELSE IF remainders[i] > 0 /\ remainder > 0
         THEN FirstPassKeepingFrom([results EXCEPT ![i].value = @ + 1], remainders,
                                   remainder, i + 1)
         ELSE FirstPassKeepingFrom(results, remainders, remainder, i + 1)

FirstPassKeeping(results, remainders, remainder) ==
    FirstPassKeepingFrom(results, remainders, remainder, 1)

\* the first pass without the test of remainders[key]: Fowler's allocation
RECURSIVE FirstPassAnyKeyFrom(_, _, _, _)
FirstPassAnyKeyFrom(results, remainders, remainder, i) ==
    IF i > Len(results) THEN [results |-> results, remainder |-> remainder]
    ELSE IF remainder > 0
         THEN FirstPassAnyKeyFrom([results EXCEPT ![i].value = @ + 1], remainders,
                                  remainder - 1, i + 1)
         ELSE FirstPassAnyKeyFrom(results, remainders, remainder, i + 1)

FirstPassAnyKey(results, remainders, remainder) ==
    FirstPassAnyKeyFrom(results, remainders, remainder, 1)

FirstPass(results, remainders, remainder) == FirstPassFrom(results, remainders, remainder, 1)

\* results[key]++ : a key that is absent reads undefined and becomes NaN
Increment(results, key) ==
    IF \E j \in 1..Len(results) : results[j].key = key
    THEN [j \in 1..Len(results) |->
            IF results[j].key = key THEN [results[j] EXCEPT !.value = @ + 1]
            ELSE results[j]]
    ELSE Append(results, [key |-> key, value |-> 0, nan |-> TRUE])

\* the second remainder pass: for (i = 0; i < remainder; i++)
\*   results[Object.keys(results)[i]]++
RECURSIVE SecondPassFrom(_, _, _)
SecondPassFrom(results, remainder, i) ==
    IF i >= remainder THEN results
    ELSE LET key == IF i + 1 <= Len(results) THEN results[i + 1].key ELSE "undefined"
         IN SecondPassFrom(Increment(results, key), remainder, i + 1)

\* the second pass taking the keys from the back of the key order
RECURSIVE SecondPassBackFrom(_, _, _)
SecondPassBackFrom(results, remainder, i) ==
    IF i >= remainder THEN results
    ELSE LET key == IF i + 1 <= Len(results) THEN results[Len(results) - i].key
                    ELSE "undefined"
         IN SecondPassBackFrom(Increment(results, key), remainder, i + 1)

SecondPassBackwards(results, remainder) == SecondPassBackFrom(results, remainder, 0)

SecondPass(results, remainder) == SecondPassFrom(results, remainder, 0)

\* the two remainder passes, one after the other
RemainderPasses(results, remainders, remainder) ==
    LET first == FirstPass(results, remainders, remainder)
    IN SecondPass(first.results, first.remainder)

\* the integer allocations: the loop over the entries, then both passes
IntegerResults(amountAsInt, rs) ==
    LET sumOfRatios == SumOfRatios(rs)
        floors == FloorResults(amountAsInt, rs, sumOfRatios)
    IN RemainderPasses(floors, Remainders(amountAsInt, rs, sumOfRatios),
                       RemainderAfterFloors(amountAsInt, floors))

\* Object.keys(results).reduce(...): every integer result wrapped by
\* withAmount(results[key] / multiplier), the cache threaded through
RECURSIVE WrapFrom(_, _, _, _, _)
WrapFrom(cache, m, results, i, acc) ==
    IF i > Len(results) THEN [error |-> "", value |-> acc, cache |-> cache]
    ELSE LET w == WithAmount(cache, m, results[i].value, results[i].nan,
                             Pow10(m.currency.exponent))
         IN IF w.error # "" THEN [error |-> w.error, value |-> <<>>, cache |-> w.cache]
            ELSE WrapFrom(w.cache, m, results, i + 1,
                          Append(acc, [key |-> results[i].key, money |-> w.money]))

\* Money.allocate(ratios): the error thrown ("" when none), the MoneyMap
\* returned (entries [key, money] in key order) and the cache afterwards
Allocate(cache, m, rs) ==
    IF SumOfRatios(rs) = 0
    THEN IF ~IsZero(m)
         THEN [error |-> "No ratios defined", value |-> <<>>, cache |-> cache]
         ELSE [error |-> "",
               value |-> [i \in 1..Len(rs) |-> [key |-> rs[i].key, money |-> m]],
               cache |-> cache]
    ELSE WrapFrom(cache, m, IntegerResults(AmountAsInt(m), rs), 1, <<>>)

(***************************************************************************)
(* Money arithmetic, conversion, serialization and equality.               *)
(***************************************************************************)
\* a number or Decimal handed to mul, div and convertTo: the rational num/den
Scalar(num, den) == [num |-> num, den |-> den]

\* rounding that drops the digits after dp decimal places
RationalTruncated(num, den, dp) ==
    LET n == IF den < 0 THEN -num ELSE num
        step == Abs(den) * Pow10(Prec - (IF dp > Prec THEN Prec ELSE dp))
        q == Abs(n) \div step
    IN IF n < 0 THEN -(q * (step \div Abs(den))) ELSE q * (step \div Abs(den))

\* the Decimal of num/den ticks rounded to dp decimal places (toDecimalPlaces,
\* toFixed) under ROUND_HALF_UP: to the nearest, a half away from zero
RationalToDecimalPlaces(num, den, dp) ==
    LET n == IF den < 0 THEN -num ELSE num
        step == Abs(den) * Pow10(Prec - (IF dp > Prec THEN Prec ELSE dp))
        q == (2 * Abs(n) + step) \div (2 * step)
    IN IF n < 0 THEN -(q * (step \div Abs(den))) ELSE q * (step \div Abs(den))

\* value instanceof Money: a Money holds a Currency, a plain MoneyValue a
\* currency value (code string, definition, instance)
IsMoney(value) == "type" \notin DOMAIN value.currency

\* Money.valueOf(value)
MoneyValueOfAny(cache, value) ==
    IF IsMoney(value) THEN [error |-> "", money |-> value, cache |-> cache]
    ELSE MoneyConstructor(cache, value)

\* Money.withAmount(amount) for the Decimal amount of num/den ticks; nan says
\* that the Decimal is not finite, as the quotient of a division by zero
WithDecimal(cache, m, num, den, nan) ==
    LET cv == CurrencyValueOf(cache, InstanceValue(m.currency))
    IN [error |-> cv.error,
        money |-> [amount |-> IF nan \/ den = 0 THEN 0
                              ELSE RationalToDecimalPlaces(num, den, cv.currency.exponent),
                   nan |-> (nan \/ den = 0),
                   currency |-> cv.currency],
        cache |-> cv.cache]

\* checkSameCurrency letting every currency through
CheckAnyCurrency(m, another) == TRUE

\* Money.checkSameCurrency(another): TRUE when it does not throw
CheckSameCurrency(m, another) == CurrencyEquals(m.currency, InstanceValue(another.currency))

\* Money.plus(value) for sign = 1, Money.minus(value) for sign = -1
PlusMinus(cache, m, value, sign) ==
    LET a == MoneyValueOfAny(cache, value)
    IN IF a.error # "" THEN a
       ELSE IF ~CheckSameCurrency(m, a.money)
            THEN [error |-> "CurrencyError", money |-> NoMoney, cache |-> a.cache]
            ELSE WithDecimal(a.cache, m, m.amount + sign * a.money.amount, 1,
                             m.nan \/ a.money.nan)

\* Money.plus(value)
Plus(cache, m, value) == PlusMinus(cache, m, value, 1)

\* Money.minus(value)
Minus(cache, m, value) == PlusMinus(cache, m, value, -1)

\* Money.mul(multiplier)
Mul(cache, m, multiplier) ==
    WithDecimal(cache, m, m.amount * multiplier.num, multiplier.den, m.nan)

\* Money.div(divider)
Div(cache, m, divider) ==
    WithDecimal(cache, m, m.amount * divider.den, divider.num, m.nan)

\* convertTo rounding the product once, to the target's exponent
ConvertToRoundingOnce(cache, m, currency, rate) ==
    MoneyConstructor(cache,
        MoneyValue(RationalToDecimalPlaces(m.amount * rate.num, rate.den, Prec),
                   m.nan, currency))

\* Money.convertTo(currency, rate)
ConvertTo(cache, m, currency, rate) ==
    MoneyConstructor(cache,
        MoneyValue(RationalToDecimalPlaces(m.amount * rate.num, rate.den,
                                           m.currency.exponent),
                   m.nan, currency))

\* Money.toJSON(): amount.toFixed(exponent) and currency.toString()
MoneyToJSON(m) ==
    MoneyValue(ToDecimalPlaces(m.amount, m.currency.exponent), m.nan,
               StringValue(m.currency.code))

\* Money.equals(another) for a Money or a plain MoneyValue another
MoneyEquals(m, another) ==
    /\ m.nan = another.nan /\ m.amount = another.amount
    /\ CurrencyEquals(m.currency,
                      IF IsMoney(another) THEN InstanceValue(another.currency)
                      ELSE another.currency)

(***************************************************************************)
(* The state machine: a caller holding one Money (the receiver of the next *)
(* call) and one ratio map, and the outcome of its most recent call.       *)
(***************************************************************************)
\* names of the keys of the caller's ratio map, in the order it adds them
KeyNames == <<"a", "b", "c", "d", "e", "f", "g", "h">>

\* the currencies a caller constructs a Money with
CurrencyInputs ==
    {StringValue("EUR"), DefinitionValue("EUR", 3)}

\* the exponent a currency input resolves to before the cache is consulted
InputExponent(value) ==
    IF value.type = "string" THEN (IF value.code = "JPY" THEN 0 ELSE 2) ELSE value.exponent

\* the amounts a caller constructs a Money of exponent e with: whole minor
\* units and, where the model's precision allows, half a minor unit more
AmountInputs(e) ==
    {u * Pow10(Prec - e) + h * (Pow10(Prec - e) \div 2) :
        u \in (-MaxAmount)..MaxAmount, h \in {0, 1}}

\* the ratios a caller puts in the map: the non-negative ones the contract
\* covers, and a negative one
RatioInputs == {-1} \cup (0..MaxRatio)

NoCall == [op |-> "none", error |-> "", value |-> <<>>]

Init ==
    /\ currencies = PredefinedCurrencies
    /\ money = MoneyConstructor(PredefinedCurrencies,
                                MoneyValue(0, FALSE, StringValue("EUR"))).money
    /\ ratios = <<>>
    /\ last = NoCall

\* the caller constructs a Money and keeps it as the receiver, before it
\* fills a ratio map
NewMoney(amount, currency) ==
    /\ ratios = <<>>
    /\ \E r \in {MoneyConstructor(currencies, MoneyValue(amount, FALSE, currency))} :
       /\ money' = IF r.error = "" THEN r.money ELSE money
       /\ currencies' = r.cache
       /\ last' = [op |-> "new", error |-> r.error, value |-> <<>>]
       /\ UNCHANGED ratios

\* the caller adds a key to its ratio map: ratios[key] = ratio
AddRatio(ratio) ==
    /\ Len(ratios) < MaxKeys
    /\ ratios' = Append(ratios, [key |-> KeyNames[Len(ratios) + 1], ratio |-> ratio])
    /\ last' = NoCall
    /\ UNCHANGED <<currencies, money>>

\* the caller starts a new, empty ratio map
NewRatios ==
    /\ ratios # <<>>
    /\ ratios' = <<>>
    /\ last' = NoCall
    /\ UNCHANGED <<currencies, money>>

\* money.allocate(ratios)
DoAllocate ==
    \E r \in {Allocate(currencies, money, ratios)} :
       /\ last' = [op |-> "allocate", error |-> r.error, value |-> r.value]
       /\ currencies' = r.cache
       /\ UNCHANGED <<money, ratios>>

Next ==
    \/ \E c \in CurrencyInputs : \E a \in AmountInputs(InputExponent(c)) : NewMoney(a, c)
    \/ \E r \in RatioInputs : AddRatio(r)
    \/ NewRatios
    \/ DoAllocate

Spec == Init /\ [][Next]_vars

(***************************************************************************)
(* A second caller: it holds one Money and calls plus, minus, mul, div,    *)
(* convertTo, allocate and toJSON on it, keeping a result as its next      *)
(* receiver when it likes.  last holds the call's argument and outcome.    *)
(***************************************************************************)
\* the currencies of the values handed to plus, minus and convertTo
ArgCurrencies ==
    {StringValue("EUR"), DefinitionValue("EUR", 3), StringValue("USD"), StringValue("JPY")}

\* the values handed to plus and minus, besides the receiver itself: one
\* hundredth more or less, nothing, and half a hundredth
MoneyInputs ==
    {MoneyValue(a, FALSE, c) :
        a \in {-Pow10(Prec - 2), 0, Pow10(Prec - 2) \div 2, Pow10(Prec - 2)},
        c \in ArgCurrencies}

\* multipliers, dividers and rates: 0, -1, 1/2, 3/2, 9/2 and 6/7
ScalarInputs ==
    {Scalar(0, 1), Scalar(-1, 1), Scalar(1, 2), Scalar(3, 2), Scalar(9, 2), Scalar(6, 7)}

\* the ratio maps handed to allocate
RatioMapInputs ==
    {<<[key |-> "a", ratio |-> 1]>>,
     <<[key |-> "a", ratio |-> 1], [key |-> "b", ratio |-> 1]>>,
     <<[key |-> "a", ratio |-> 1], [key |-> "b", ratio |-> 2]>>}

\* the outcome of a call that returns a Money
Outcome(op, arg, r) ==
    [op |-> op, error |-> r.error, value |-> <<>>, arg |-> arg, result |-> r.money]

\* new Money({amount, currency}), kept as the receiver when it succeeds
DoNewMoney(amount, currency) ==
    /\ ratios = <<>>
    /\ \E r \in {MoneyConstructor(currencies, MoneyValue(amount, FALSE, currency))} :
       /\ money' = IF r.error = "" THEN r.money ELSE money
       /\ currencies' = r.cache
       /\ last' = Outcome("new", MoneyValue(amount, FALSE, currency), r)
    /\ UNCHANGED ratios

\* money.plus(value)
DoPlus(value) ==
    /\ ratios = <<>>
    /\ \E r \in {Plus(currencies, money, value)} :
       /\ last' = Outcome("plus", value, r)
       /\ currencies' = r.cache
    /\ UNCHANGED <<money, ratios>>

\* money.minus(value)
DoMinus(value) ==
    /\ ratios = <<>>
    /\ \E r \in {Minus(currencies, money, value)} :
       /\ last' = Outcome("minus", value, r)
       /\ currencies' = r.cache
    /\ UNCHANGED <<money, ratios>>

\* mul working in place: the receiver takes the product
DoMulInPlace(multiplier) ==
    /\ ratios = <<>>
    /\ \E r \in {Mul(currencies, money, multiplier)} :
       /\ last' = Outcome("mul", multiplier, r)
       /\ currencies' = r.cache
       /\ money' = r.money
    /\ UNCHANGED ratios

\* money.mul(multiplier)
DoMul(multiplier) ==
    /\ ratios = <<>>
    /\ \E r \in {Mul(currencies, money, multiplier)} :
       /\ last' = Outcome("mul", multiplier, r)
       /\ currencies' = r.cache
    /\ UNCHANGED <<money, ratios>>

\* money.div(divider)
DoDiv(divider) ==
    /\ ratios = <<>>
    /\ \E r \in {Div(currencies, money, divider)} :
       /\ last' = Outcome("div", divider, r)
       /\ currencies' = r.cache
    /\ UNCHANGED <<money, ratios>>

\* money.convertTo(currency, rate)
DoConvertTo(currency, rate) ==
    /\ ratios = <<>>
    /\ \E r \in {ConvertTo(currencies, money, currency, rate)} :
       /\ last' = Outcome("convertTo", [currency |-> currency, rate |-> rate], r)
       /\ currencies' = r.cache
    /\ UNCHANGED <<money, ratios>>

\* the caller writes a ratio map; money.allocate(ratios) is DoAllocate and
\* NewRatios drops the map again
FillRatios(rs) ==
    /\ ratios = <<>>
    /\ ratios' = rs
    /\ last' = NoCall
    /\ UNCHANGED <<currencies, money>>

\* money.equals(another)
DoMoneyEquals(another) ==
    /\ ratios = <<>>
    /\ last' = [op |-> "equals", error |-> "", value |-> <<>>,
                arg |-> another, result |-> MoneyEquals(money, another)]
    /\ UNCHANGED <<currencies, money, ratios>>

\* new Money(money.toJSON()): the receiver serialized and built again
DoToJSON ==
    /\ ratios = <<>>
    /\ \E r \in {MoneyConstructor(currencies, MoneyToJSON(money))} :
       /\ last' = Outcome("toJSON", MoneyToJSON(money), r)
       /\ currencies' = r.cache
    /\ UNCHANGED <<money, ratios>>

\* the Money a call has returned: its result, or a share of an allocation
Returns ==
    IF last.op \in {"plus", "minus", "mul", "div", "convertTo", "toJSON"}
    THEN IF last.error = "" THEN {last.result} ELSE {}
    ELSE IF last.op = "allocate" THEN {last.value[i].money : i \in 1..Len(last.value)}
    ELSE {}

\* the caller goes on with a Money a call has returned, as long as it is
\* finite and within the minor units of the model
Keep(m) ==
    /\ ~m.nan
    /\ m.currency.exponent <= Prec
    /\ Abs(m.amount) <= (MaxAmount + 1) * Pow10(Prec - m.currency.exponent)
    /\ money' = m
    /\ last' = NoCall
    /\ UNCHANGED <<currencies, ratios>>

NextMoney ==
    \/ \E c \in CurrencyInputs : \E a \in AmountInputs(InputExponent(c)) : DoNewMoney(a, c)
    \/ \E v \in MoneyInputs \cup {money} : DoPlus(v)
    \/ \E v \in MoneyInputs \cup {money} : DoMinus(v)
    \/ \E x \in ScalarInputs : DoMul(x)
    \/ \E x \in ScalarInputs : DoDiv(x)
    \/ \E c \in ArgCurrencies : \E x \in ScalarInputs : DoConvertTo(c, x)
    \/ \E rs \in RatioMapInputs : FillRatios(rs)
    \/ DoAllocate
    \/ NewRatios
    \/ \E v \in MoneyInputs \cup {money} : DoMoneyEquals(v)
    \/ DoToJSON
    \/ \E m \in Returns : Keep(m)

SpecMoney == Init /\ [][NextMoney]_vars

(***************************************************************************)
(* A third caller: it works on currencies.  The Currency it holds is the   *)
(* currency of its Money; it calls Currency.valueOf, equals and toJSON and *)
(* constructs a Money of any currency value, a missing one included.       *)
(***************************************************************************)
\* the values handed to Currency.valueOf, Currency.equals and new Money,
\* besides the Currency instances of the cache
DefinitionInputs ==
    {DefinitionValue("EUR", 2), DefinitionValue("EUR", 3), DefinitionValue("XTS", 0)}

CodeInputs == {StringValue("EUR"), StringValue("JPY"), StringValue("XTS")}

\* the Currency instances a caller can hold: those Currency.valueOf returned
CachedInstances == {InstanceValue(currencies[k]) : k \in DOMAIN currencies}

CurrencyValues == CodeInputs \cup DefinitionInputs \cup CachedInstances \cup {UndefinedValue}

\* Currency.valueOf(value)
DoValueOf(value) ==
    /\ \E r \in {CurrencyValueOf(currencies, value)} :
       /\ last' = [op |-> "valueOf", error |-> r.error, value |-> <<>>,
                   arg |-> value, result |-> r.currency]
       /\ currencies' = r.cache
    /\ UNCHANGED <<money, ratios>>

\* money.currency.equals(another)
DoEquals(another) ==
    /\ last' = [op |-> "equals", error |-> "", value |-> <<>>,
                arg |-> another, result |-> CurrencyEquals(money.currency, another)]
    /\ UNCHANGED <<currencies, money, ratios>>

\* Currency.valueOf(money.currency.toJSON()): the Currency serialized and
\* looked up again
DoCurrencyToJSON ==
    /\ \E r \in {CurrencyValueOf(currencies, CurrencyToJSON(currencies, money.currency))} :
       /\ last' = [op |-> "Currency.toJSON", error |-> r.error, value |-> <<>>,
                   arg |-> CurrencyToJSON(currencies, money.currency),
                   result |-> r.currency]
       /\ currencies' = r.cache
    /\ UNCHANGED <<money, ratios>>

NextCurrency ==
    \/ \E v \in CurrencyValues : DoValueOf(v)
    \/ \E v \in CurrencyValues : DoEquals(v)
    \/ DoCurrencyToJSON
    \/ \E v \in CurrencyValues : DoNewMoney(0, v)

SpecCurrency == Init /\ [][NextCurrency]_vars

(***************************************************************************)
(* Vocabulary of the properties.  These definitions restate arithmetic on  *)
(* their own, so that no property is stated through the operator it is     *)
(* about.                                                                  *)
(***************************************************************************)
\* the last call was allocate on the current receiver and ratio map
Allocated == last.op = "allocate"

\* ... and it returned a map
Returned == Allocated /\ last.error = ""

NonNegativeRatios == \A i \in 1..Len(ratios) : ratios[i].ratio >= 0

RECURSIVE RatioTotalFrom(_)
RatioTotalFrom(i) == IF i > Len(ratios) THEN 0 ELSE ratios[i].ratio + RatioTotalFrom(i + 1)

\* the sum of the ratios of the caller's map
RatioTotal == RatioTotalFrom(1)

\* the domain of the allocation contract: non-negative ratios, one non-zero
ContractRatios == NonNegativeRatios /\ RatioTotal > 0

AllRatiosZero == \A i \in 1..Len(ratios) : ratios[i].ratio = 0

\* a Money is a whole number of minor units of its own currency
WholeUnits(m) ==
    /\ ~m.nan
    /\ m.currency.exponent <= Prec
    /\ m.amount % Pow10(Prec - m.currency.exponent) = 0

\* the amount of a Money, counted in minor units of its own currency
Units(m) == m.amount \div Pow10(Prec - m.currency.exponent)

SameCurrency(m, n) ==
    m.currency.code = n.currency.code /\ m.currency.exponent = n.currency.exponent

\* what key number i was given, in minor units
Given(i) == Units(last.value[i].money)

\* the floor of the exact share Units(money) * ratio / RatioTotal of key i
ExactFloor(i) ==
    LET n == Units(money) * ratios[i].ratio
    IN IF RatioTotal > 0 THEN n \div RatioTotal ELSE (-n) \div (-RatioTotal)

\* the exact share of key i has a fractional part of at least one half
RoundsUp(i) ==
    LET n == Units(money) * ratios[i].ratio
        f == IF RatioTotal > 0 THEN n % RatioTotal ELSE (-n) % (-RatioTotal)
    IN 2 * f >= Abs(RatioTotal)

\* the exact share of key i rounded half-up on its own
HalfUp(i) == ExactFloor(i) + (IF RoundsUp(i) THEN 1 ELSE 0)

\* twice-compared fractional parts: the share of key i has a larger
\* fractional part than the share of key j (non-negative ratios)
LargerFraction(i, j) ==
    (Units(money) * ratios[i].ratio) % RatioTotal
        > (Units(money) * ratios[j].ratio) % RatioTotal

\* key i received a leftover unit on top of its floor
GotExtra(i) == Given(i) > ExactFloor(i)

RECURSIVE GivenFrom(_)
GivenFrom(i) == IF i > Len(last.value) THEN 0 ELSE Given(i) + GivenFrom(i + 1)

RECURSIVE HalfUpFrom(_)
HalfUpFrom(i) == IF i > Len(ratios) THEN 0 ELSE HalfUp(i) + HalfUpFrom(i + 1)

\* the result map has the keys of the ratio map, in the same order
SameKeys ==
    /\ Len(last.value) = Len(ratios)
    /\ \A i \in 1..Len(ratios) : last.value[i].key = ratios[i].key

\* the ratio map without its entry number i
WithoutKey(rs, i) == [j \in 1..(Len(rs) - 1) |-> IF j < i THEN rs[j] ELSE rs[j + 1]]

(***************************************************************************)
(* Properties of allocate.                                                 *)
(***************************************************************************)
\* C1: for every amount (positive, zero or negative) and every map of
\* non-negative ratios with a non-zero ratio, allocate returns, and the
\* amounts it returns, counted in minor units, sum to the receiver's amount
\* in minor units.
C1_SumInvariant ==
    (Allocated /\ ContractRatios) =>
        /\ last.error = ""
        /\ \A i \in 1..Len(last.value) : WholeUnits(last.value[i].money)
        /\ GivenFrom(1) = Units(money)

\* C1 witness: a negative amount was allocated over three keys or more and
\* a leftover unit was handed out.
C1_Witness ==
    /\ Returned /\ ContractRatios
    /\ Units(money) < 0
    /\ Len(ratios) >= 3
    /\ \E i \in 1..Len(ratios) : GotExtra(i)

\* C2 (as claimed): a key whose ratio is 0, beside a non-zero ratio, always
\* receives exactly zero.
C2_ZeroRatioGetsZero ==
    (Returned /\ ContractRatios) =>
        \A i \in 1..Len(ratios) : ratios[i].ratio = 0 => Given(i) = 0

\* C3 (as claimed): removing a zero-ratio key from a ratio map that has
\* non-zero ratios changes nothing of what allocate gives to the other keys.
C3_RemovingZeroKey ==
    (Returned /\ ContractRatios) =>
        \A i \in 1..Len(ratios) :
            ratios[i].ratio = 0 =>
                LET without == Allocate(currencies, money, WithoutKey(ratios, i)).value
                IN /\ Len(without) = Len(ratios) - 1
                   /\ \A j \in 1..Len(without) :
                        LET k == IF j < i THEN j ELSE j + 1
                        IN /\ without[j].key = last.value[k].key
                           /\ without[j].money = last.value[k].money

\* C4: whenever the exact shares, each rounded half-up on its own, sum to
\* the total, allocate returns exactly those separately rounded shares.
C4_SeparateRounding ==
    (Allocated /\ RatioTotal # 0 /\ HalfUpFrom(1) = Units(money)) =>
        /\ last.error = ""
        /\ SameKeys
        /\ \A i \in 1..Len(ratios) : Given(i) = HalfUp(i)

\* C4 witness: the separately rounded shares sum to the total and the
\* leftover unit went past the first key to a later one (1 split 1:2).
C4_Witness ==
    /\ Returned /\ ContractRatios
    /\ HalfUpFrom(1) = Units(money)
    /\ Len(ratios) >= 2
    /\ ~GotExtra(1)
    /\ \E i \in 2..Len(ratios) : GotExtra(i)

\* C5 (as claimed): no key that was left without an extra unit has a larger
\* fractional part of its exact share than a key that received one.
C5_LargestFractionsFirst ==
    (Returned /\ ContractRatios) =>
        \A i, j \in 1..Len(ratios) :
            (GotExtra(i) /\ ~GotExtra(j)) => ~LargerFraction(j, i)

\* C5 (amended): the leftover units go first to the keys whose exact share
\* rounds up: no key whose share has a fractional part below one half
\* receives an extra unit while a key whose share has a fractional part of
\* at least one half is left without one.
C5_RoundingUpFirst ==
    (Returned /\ RatioTotal # 0) =>
        \A i, j \in 1..Len(ratios) :
            (GotExtra(i) /\ ~GotExtra(j) /\ RoundsUp(j)) => RoundsUp(i)

\* C5 witness: a key whose share rounds up was left without an extra unit
\* because the units ran out on the keys before it.
C5_Witness ==
    /\ Returned /\ ContractRatios
    /\ \E i, j \in 1..Len(ratios) : GotExtra(i) /\ ~GotExtra(j) /\ RoundsUp(j)

\* C6: with a single key of non-zero ratio, allocate returns exactly the
\* receiver's amount for that key, whatever the ratio and the amount.
C6_SingleRatioIdentity ==
    (Allocated /\ Len(ratios) = 1 /\ ratios[1].ratio # 0) =>
        /\ last.error = ""
        /\ SameKeys
        /\ ~last.value[1].money.nan
        /\ last.value[1].money.amount = money.amount
        /\ SameCurrency(last.value[1].money, money)

\* C6 witness: a non-zero amount was allocated to a single key whose ratio
\* is not 1.
C6_Witness ==
    /\ Returned
    /\ Len(ratios) = 1
    /\ ratios[1].ratio \notin {0, 1}
    /\ money.amount # 0

\* C7 (as claimed): allocate with an empty ratio map fails with 'No ratios
\* defined' for every amount, a zero amount included.
C7_EmptyRatiosFail ==
    (Allocated /\ ratios = <<>>) => last.error = "No ratios defined"

\* C8: allocate on a non-zero amount with a non-empty ratio map whose ratios
\* are all zero fails with 'No ratios defined' and returns nothing.
C8_AllZeroRatiosFail ==
    (Allocated /\ ratios # <<>> /\ AllRatiosZero /\ money.amount # 0) =>
        /\ last.error = "No ratios defined"
        /\ last.value = <<>>

\* C8 witness: a negative amount met a map of two zero ratios or more.
C8_Witness ==
    /\ Allocated
    /\ Len(ratios) >= 2 /\ AllRatiosZero
    /\ money.amount < 0
    /\ last.error = "No ratios defined"

\* C9: allocate on an amount of exactly zero with a non-empty ratio map
\* whose ratios are all zero returns, for every key, the zero amount in the
\* receiver's currency.
C9_ZeroAmountZeroRatios ==
    (Allocated /\ ratios # <<>> /\ AllRatiosZero /\ money.amount = 0) =>
        /\ last.error = ""
        /\ SameKeys
        /\ \A i \in 1..Len(last.value) :
             /\ ~last.value[i].money.nan
             /\ last.value[i].money.amount = 0
             /\ SameCurrency(last.value[i].money, money)

\* C9 witness: a zero amount of the three-decimal currency met a map of two
\* zero ratios or more, and a map came back.
C9_Witness ==
    /\ Returned
    /\ Len(ratios) >= 2 /\ AllRatiosZero
    /\ money.amount = 0
    /\ money.currency.exponent = 3

\* C10: every successful allocate returns a map whose key set is exactly the
\* key set of the ratio map, every value a Money of the receiver's currency
\* code and exponent.
C10_KeysAndCurrency ==
    Returned =>
        /\ {last.value[i].key : i \in 1..Len(last.value)}
             = {ratios[i].key : i \in 1..Len(ratios)}
        /\ Len(last.value) = Len(ratios)
        /\ \A i \in 1..Len(last.value) : SameCurrency(last.value[i].money, money)

\* C10 witness: an amount of the three-decimal currency was split over
\* three keys or more.
C10_Witness ==
    /\ Returned /\ ContractRatios
    /\ Len(ratios) >= 3
    /\ money.currency.exponent = 3
    /\ money.amount # 0

(***************************************************************************)
(* Properties of plus, minus, mul, div, convertTo and toJSON (SpecMoney).  *)
(***************************************************************************)
\* the last call was plus or minus on the current receiver
Added == last.op \in {"plus", "minus"}

\* the code and the exponent of the currency of the Money or MoneyValue v:
\* a bare code stands for exponent 2, except the predefined JPY
ArgCode(v) == v.currency.code
ArgExponent(v) ==
    IF "type" \in DOMAIN v.currency /\ v.currency.type = "string"
    THEN (IF v.currency.code = "JPY" THEN 0 ELSE 2)
    ELSE v.currency.exponent

\* C11: a.plus(b) and a.minus(b) throw CurrencyError whenever the currencies
\* of a and b differ in code or in exponent, and succeed whenever both match
C11_CurrencyCheck ==
    Added =>
        IF ArgCode(last.arg) = money.currency.code
           /\ ArgExponent(last.arg) = money.currency.exponent
        THEN last.error = ""
        ELSE last.error = "CurrencyError"

\* reached: a sum refused for the exponent alone, the codes being equal
C11_Witness ==
    /\ Added
    /\ ArgCode(last.arg) = money.currency.code
    /\ ArgExponent(last.arg) # money.currency.exponent
    /\ last.error = "CurrencyError"

\* x (in ticks) is a whole number of units of 10^-e, and no other one is
\* nearer to num/den (den > 0)
Nearest(x, num, den, e) ==
    /\ x % Pow10(Prec - e) = 0
    /\ 2 * Abs(x * den - num) <= Pow10(Prec - e) * den

\* x is exactly half a unit of 10^-e away from num/den
Halfway(x, num, den, e) == 2 * Abs(x * den - num) = Pow10(Prec - e) * den

\* x is num/den rounded to e places, a half going away from zero
RoundedAwayFromZero(x, num, den, e) ==
    /\ Nearest(x, num, den, e)
    /\ Halfway(x, num, den, e) => Abs(x) * den > Abs(num)

\* x is num/den rounded to e places, a half going to the upper neighbour
RoundedUpwards(x, num, den, e) ==
    /\ Nearest(x, num, den, e)
    /\ Halfway(x, num, den, e) => x * den > num

\* the two multiples of 10^-e that num/den lies between (den > 0)
Neighbours(num, den, e) ==
    LET below == FloorDiv(num, den * Pow10(Prec - e)) * Pow10(Prec - e)
    IN {below, below + Pow10(Prec - e)}

\* C13: after any sequence of construction, plus, minus, mul, div, convertTo
\* and allocate, every Money that exists (the receiver and what the last call
\* returned) has an amount that is a whole number of minor units of its
\* currency
C13_WholeMinorUnits ==
    /\ WholeUnits(money)
    /\ \A m \in Returns : WholeUnits(m)

\* C14: Money.toJSON() carries the exponent when it is not the default, so
\* that the Money built from m.toJSON() equals m: same amount, same currency
\* code, same exponent
C14_JSONRoundTrip ==
    last.op = "toJSON" =>
        /\ last.error = ""
        /\ ~last.result.nan
        /\ last.result.amount = money.amount
        /\ SameCurrency(last.result, money)

\* the last call was convertTo and it returned
Converted == last.op = "convertTo" /\ last.error = ""

\* C18: m.convertTo(target, rate) is amount x rate rounded first to the
\* exponent of m's own currency and then to the exponent of the target
\* currency, in the target currency
C18_ConvertRoundsTwice ==
    Converted =>
        /\ last.result.currency.code = ArgCode(last.arg)
        /\ last.result.currency.exponent = ArgExponent(last.arg)
        /\ ~last.result.nan
        /\ \E mid \in Neighbours(money.amount * last.arg.rate.num, last.arg.rate.den,
                                  money.currency.exponent) :
              /\ RoundedAwayFromZero(mid, money.amount * last.arg.rate.num,
                                     last.arg.rate.den, money.currency.exponent)
              /\ RoundedAwayFromZero(last.result.amount, mid, 1, ArgExponent(last.arg))

\* reached: a conversion whose result is not the product rounded once to the
\* target's exponent (0.001 at exponent 3 times 4.5 is 0.01 at exponent 2)
C18_Witness ==
    /\ Converted
    /\ money.currency.exponent > ArgExponent(last.arg)
    /\ ~Nearest(last.result.amount, money.amount * last.arg.rate.num,
                last.arg.rate.den, ArgExponent(last.arg))

\* the last call was a construction, a mul or a div with a non-zero divider
Scaled ==
    \/ last.op \in {"new", "mul"}
    \/ last.op = "div" /\ last.arg.num # 0

\* the exact value of that call, in ticks, as ExactNum / ExactDen with a
\* positive ExactDen
ExactNum ==
    IF last.op = "new" THEN last.arg.amount
    ELSE IF last.op = "mul" THEN money.amount * last.arg.num
    ELSE IF last.arg.num < 0 THEN -(money.amount * last.arg.den)
    ELSE money.amount * last.arg.den

ExactDen ==
    IF last.op = "new" THEN 1
    ELSE IF last.op = "mul" THEN last.arg.den
    ELSE Abs(last.arg.num)

\* construction, mul and div succeed whatever the currency and return a
\* Money of the receiver's currency (of the currency given, for construction)
ScaledKeepsCurrency ==
    /\ last.error = ""
    /\ ~last.result.nan
    /\ SameCurrency(last.result, money)
    /\ last.op = "new" =>
           /\ last.result.currency.code = ArgCode(last.arg)
           /\ last.result.currency.exponent = ArgExponent(last.arg)

\* C19 as stated: construction, mul and div round the exact value to the
\* currency's exponent, a value exactly halfway between two minor units
\* going to the upper one, and keep the receiver's currency without any
\* currency check
C19_HalfToUpper ==
    Scaled =>
        /\ ScaledKeepsCurrency
        /\ RoundedUpwards(last.result.amount, ExactNum, ExactDen,
                          last.result.currency.exponent)

\* C19 amended: construction, mul and div round the exact value to the
\* currency's exponent, a value exactly halfway between two minor units
\* going away from zero, and keep the receiver's currency without any
\* currency check
C19_HalfAwayFromZero ==
    Scaled =>
        /\ ScaledKeepsCurrency
        /\ RoundedAwayFromZero(last.result.amount, ExactNum, ExactDen,
                               last.result.currency.exponent)

\* reached: a negative product exactly halfway between two minor units,
\* rounded to the lower one
C19_Witness ==
    /\ last.op = "mul"
    /\ ExactNum < 0
    /\ Halfway(last.result.amount, ExactNum, ExactDen, last.result.currency.exponent)
    /\ last.result.amount * ExactDen < ExactNum

\* C21: no Money operation (plus, minus, mul, div, convertTo, allocate,
\* equals, toJSON) changes the amount or the currency of the receiver or of
\* a Money passed as argument (the receiver itself, in a.plus(a)), and
\* allocate leaves the caller's ratio map unchanged
C21_Immutable ==
    [][last'.op \in {"plus", "minus", "mul", "div", "convertTo", "allocate",
                     "equals", "toJSON"}
          => money' = money /\ ratios' = ratios]_vars

\* reached: an allocation over a map of two keys that returned amounts other
\* than the receiver's
C21_Witness ==
    /\ Returned
    /\ Len(ratios) > 1
    /\ \E i \in 1..Len(last.value) : last.value[i].money.amount # money.amount

(***************************************************************************)
(* Properties of Currency (SpecCurrency).                                  *)
(***************************************************************************)
\* C12: c.equals(d), for d a Currency or a {code, exponent} definition, is
\* true exactly when code and exponent both match; it is false for null and
\* undefined; where the two currencies came from does not matter
C12_EqualsByCodeAndExponent ==
    last.op = "equals" =>
        /\ last.arg.type \in {"object", "currency"} =>
               (last.result <=> /\ last.arg.code = money.currency.code
                                /\ last.arg.exponent = money.currency.exponent)
        /\ last.arg.type = "undefined" => ~last.result

\* reached: equals refusing a Currency of the same code for its exponent
C12_Witness ==
    /\ last.op = "equals"
    /\ last.arg.type = "currency"
    /\ last.arg.code = money.currency.code
    /\ last.arg.exponent # money.currency.exponent
    /\ ~last.result

\* C15: Currency.valueOf(c.toJSON()) has the code and the exponent of c in
\* every state of the cache; c is serialized as its bare code only when the
\* bare code resolves to a Currency of the same exponent, and with its
\* exponent otherwise
C15_CurrencyRoundTrip ==
    last.op = "Currency.toJSON" =>
        /\ last.error = ""
        /\ last.result.code = money.currency.code
        /\ last.result.exponent = money.currency.exponent
        /\ last.arg.type = "string" =>
               /\ BareKey(money.currency.code) \in DOMAIN currencies
               /\ currencies[BareKey(money.currency.code)].exponent = money.currency.exponent

\* reached: a Currency serialized with its exponent because its bare code
\* is cached with another exponent
C15_Witness ==
    /\ last.op = "Currency.toJSON"
    /\ last.arg.type = "object"
    /\ BareKey(money.currency.code) \in DOMAIN currencies
    /\ currencies[BareKey(money.currency.code)].exponent # money.currency.exponent
    /\ last.result.exponent = money.currency.exponent

\* the last call was Currency.valueOf
Looked == last.op = "valueOf"

\* C16 as stated: Currency.valueOf of a bare code string returns a Currency
\* of that code and of exponent 2, for every code and after any sequence of
\* earlier calls
C16_BareCodeExponentTwo ==
    (Looked /\ last.arg.type = "string") =>
        /\ last.error = ""
        /\ last.result.code = last.arg.code
        /\ last.result.exponent = 2

\* C16 amended: Currency.valueOf of a bare code string returns a Currency of
\* that code, of exponent 0 for the predefined JPY and of exponent 2 for
\* every other code, after any sequence of earlier calls
C16_BareCodeDefault ==
    (Looked /\ last.arg.type = "string") =>
        /\ last.error = ""
        /\ last.result.code = last.arg.code
        /\ last.result.exponent = IF last.arg.code = "JPY" THEN 0 ELSE 2

\* reached: a bare code resolved to exponent 2 while a definition of the
\* same code with another exponent is cached
C16_Witness ==
    /\ Looked
    /\ last.arg = StringValue("XTS")
    /\ JsonObjectKey("XTS", 0) \in DOMAIN currencies
    /\ last.result = Currency("XTS", 2)

\* C17: Currency.valueOf of a {code, exponent} definition (a Currency
\* instance included) returns a Currency of exactly that code and exponent,
\* after any sequence of earlier calls
C17_DefinitionExact ==
    (Looked /\ last.arg.type \in {"object", "currency"}) =>
        /\ last.error = ""
        /\ last.result.code = last.arg.code
        /\ last.result.exponent = last.arg.exponent

\* reached: a definition resolved to its own exponent while its bare code
\* is cached with another one
C17_Witness ==
    /\ Looked
    /\ last.arg = DefinitionValue("XTS", 0)
    /\ BareKey("XTS") \in DOMAIN currencies
    /\ JsonObjectKey("EUR", 3) \in DOMAIN currencies
    /\ last.result = Currency("XTS", 0)

\* C20: Currency.valueOf(undefined) and Currency.valueOf(null) throw
\* InvalidCurrencyError, constructing a Money without a currency throws
\* CurrencyError, and neither call adds an entry to the cache
C20_MissingCurrencyFails ==
    [][/\ (last'.op = "valueOf" /\ last'.arg.type = "undefined") =>
              /\ last'.error = "InvalidCurrencyError"
              /\ currencies' = currencies
       /\ (last'.op = "new" /\ last'.arg.currency.type = "undefined") =>
              /\ last'.error = "CurrencyError"
              /\ currencies' = currencies
              /\ money' = money]_vars

\* reached: a Money without currency refused while the cache holds entries
\* added by earlier calls
C20_Witness ==
    /\ last.op = "new"
    /\ last.arg.currency.type = "undefined"
    /\ last.error = "CurrencyError"
    /\ BareKey("XTS") \in DOMAIN currencies
    /\ JsonObjectKey("EUR", 3) \in DOMAIN currencies

\* C24: Currency.equals agrees with Currency.valueOf on every accepted
\* input: for a Currency c and a code string, a definition or a Currency x,
\* c.equals(x) is true exactly when Currency.valueOf(x) has the code and the
\* exponent of c
C24_EqualsAgreesWithValueOf ==
    (last.op = "equals" /\ last.arg.type # "undefined") =>
        (last.result <=>
            /\ CurrencyValueOf(currencies, last.arg).currency.code = money.currency.code
            /\ CurrencyValueOf(currencies, last.arg).currency.exponent
                   = money.currency.exponent)

(***************************************************************************)
(* Properties of the two remainder passes of allocate (Spec).              *)
(***************************************************************************)
RECURSIVE ExactFloorFrom(_)
ExactFloorFrom(i) == IF i > Len(ratios) THEN 0 ELSE ExactFloor(i) + ExactFloorFrom(i + 1)

\* the units left when every key has the floor of its exact share
UnitsAfterFloors == Units(money) - ExactFloorFrom(1)

\* the keys before key i whose share rounds up
RoundingUpBefore(i) == Cardinality({j \in 1..(i - 1) : RoundsUp(j)})

\* the keys whose share rounds up
RoundingUp == RoundingUpBefore(Len(ratios) + 1)

\* the units left when, besides, every key whose share rounds up has one more
Leftover == UnitsAfterFloors - RoundingUp

C23_FirstPassEarliestKeys ==
    (Returned /\ RatioTotal # 0 /\ RoundingUp > UnitsAfterFloors) =>
        /\ SameKeys
        /\ \A i \in 1..Len(ratios) :
              Given(i) = ExactFloor(i)
                  + (IF RoundsUp(i) /\ RoundingUpBefore(i) < UnitsAfterFloors
                     THEN 1 ELSE 0)

\* reached: two keys whose shares round up and one unit, given to the
\* earlier of them
C23_Witness ==
    /\ Returned /\ RatioTotal # 0
    /\ UnitsAfterFloors > 0
    /\ \E i, j \in 1..Len(ratios) :
          /\ i < j /\ RoundsUp(i) /\ RoundsUp(j)
          /\ Given(i) = ExactFloor(i) + 1
          /\ Given(j) = ExactFloor(j)

\* the exact share of key i is a whole number of minor units
WholeShare(i) == (Units(money) * ratios[i].ratio) % RatioTotal = 0

\* the ceiling of the exact share of key i
ExactCeiling(i) == ExactFloor(i) + (IF WholeShare(i) THEN 0 ELSE 1)

\* C25: for non-negative ratios, every amount returned by allocate is the
\* floor or the ceiling of that key's exact share in minor units: no key
\* receives more than one leftover unit over the two passes together
C25_FloorOrCeiling ==
    (Returned /\ ContractRatios) =>
        \A i \in 1..Len(last.value) : Given(i) \in {ExactFloor(i), ExactCeiling(i)}

\* C26: allocate is monotone in the ratios: for a non-negative amount and
\* non-negative ratios, a key with a larger ratio never receives less than a
\* key with a smaller ratio, whatever the order of the keys
C26_MonotoneInRatios ==
    (Returned /\ ContractRatios /\ money.amount >= 0) =>
        \A i, j \in 1..Len(last.value) :
            ratios[i].ratio > ratios[j].ratio => Given(i) >= Given(j)

\* the receiver with its amount negated, and what allocate gives for it
Negated == [money EXCEPT !.amount = -@]
NegatedAllocation == Allocate(currencies, Negated, ratios)

\* allocating the negated amount gives, for every key, the negation of what
\* the last call gave
MirrorsLast ==
    /\ NegatedAllocation.error = ""
    /\ Len(NegatedAllocation.value) = Len(last.value)
    /\ \A i \in 1..Len(last.value) :
          /\ NegatedAllocation.value[i].key = last.value[i].key
          /\ ~NegatedAllocation.value[i].money.nan
          /\ NegatedAllocation.value[i].money.amount = -last.value[i].money.amount

====
